---------------------------- MODULE Spec2Model ----------------------------
(***************************************************************************)
(* Model of src/subscriber.py: the MQTT subscriber that decodes sensor     *)
(* messages (on_message), writes them to SQLite (store_reading), answers   *)
(* the two queries (get_latest_readings, get_readings_summary) and runs    *)
(* the summarizer loop with its cleanup (main, cleanup).                   *)
(*                                                                         *)
(* Conventions                                                             *)
(*  - a topic is a sequence of string pieces; the piece "/" is the         *)
(*    separator, every other piece is slash-free text;                     *)
(*  - a payload is [k |-> "undecodable"] (bytes that are not UTF-8),       *)
(*    [k |-> "not_json"] (text that is not JSON) or                        *)
(*    [k |-> "json", body |-> J] with J a JSON value [t |-> tag, v |-> x]; *)
(*  - sensor values are whole numbers; a mean is the exact fraction        *)
(*    [num, den];                                                          *)
(*  - text is ordered as SQLite's BINARY collation orders it, restricted   *)
(*    to the strings of TextOrder.                                         *)
(*                                                                         *)
(* Specifications                                                          *)
(*  - Spec: the main thread and the transport thread at the level of the   *)
(*    statements that touch shared state: on_message is split at           *)
(*    db_connection.commit(), init_mqtt at its time.sleep(1), the exit     *)
(*    from the loop of main is one step and cleanup three more;            *)
(*  - SpecTraced: Spec with the rows each summary read recorded in the     *)
(*    history variable summarized.                                         *)
(***************************************************************************)
EXTENDS Integers, Sequences, FiniteSets, TLC

VARIABLES
    schema,             \* the table and indexes DB_FILE holds
    store,              \* committed rows of sensor_readings (the durable table)
    txn,                \* rows inserted on db_connection and not yet committed
    messages_received,  \* the global counter
    db_connection,      \* "None" | "open" | "closed"
    mqtt_client,        \* "None" | "created" | "running" | "crashed" | "stopped"
    main_pc,            \* where main is: "init_database" | "init_mqtt" |
                        \* "init_mqtt_sleep" | "loop" | "cleanup" | "returned" |
                        \* "raised" (an exception left main)
    exit_log,           \* the line main logs when it leaves ("none" while running)
    handler_result,     \* how the last on_message call ended: "idle" | "returned" | "raised"
    handler_log,        \* the last line logged by on_message / store_reading
    summary_emitted,    \* summary rows logged by the last summarizer tick
    logged_total,       \* <<n>> once cleanup logged "Total messages stored: n"
    inflight,           \* the on_message call between its execute() and its commit()
    cleanup_pc,         \* the step of cleanup main is at (0 outside cleanup)
    summarized          \* history: ids of the rows the summaries have read

vars == <<schema, store, txn, messages_received, db_connection, mqtt_client, main_pc,
          exit_log, handler_result, handler_log, summary_emitted, logged_total,
          inflight, cleanup_pc, summarized>>

-----------------------------------------------------------------------------
(* Bounds *)

\* Deliveries per behaviour (caps messages_received).
MaxMessages == 2

-----------------------------------------------------------------------------
(* Text and its order *)

\* memcmp order of every string a row can hold.
TextOrder == <<"", "0", "1", "2", "2024-01-01T00:00:00", "2024-01-01T00:05:00",
               "C", "a", "abc", "humidity", "temperature">>

TextRank(s) == CHOOSE i \in DOMAIN TextOrder : TextOrder[i] = s

TextLess(a, b) == TextRank(a) < TextRank(b)

\* The values datetime.now().isoformat() takes (line 140).
Clock == {"2024-01-01T00:05:00"}

-----------------------------------------------------------------------------
(* JSON values, as json.loads builds them *)

JNull == [t |-> "null", v |-> 0]
JNum(n) == [t |-> "num", v |-> n]
\* an integer literal of 2^63 or more: a Python int SQLite cannot hold
JBigInt == [t |-> "bigint", v |-> 0]
JStr(s) == [t |-> "str", v |-> s]
JBool(b) == [t |-> "bool", v |-> b]
JList == [t |-> "list", v |-> 0]
JObj(f) == [t |-> "obj", v |-> f]

\* The one element of a singleton set: { e(x) : x \in {v} } binds x to the
\* value v once.
Only(S) == CHOOSE x \in S : TRUE

\* dict.get(key, default)
Get(obj, key, default) == IF key \in DOMAIN obj THEN obj[key] ELSE default

-----------------------------------------------------------------------------
(* Inputs *)

Topics == {
    <<"sensors", "/", "a", "/", "temperature">>,
    <<"sensors", "/", "a", "/", "humidity">>,
    <<"sensors", "/", "/", "temperature">>,
    <<"foo", "/", "a", "/", "temperature">>,
    <<"bad", "/", "topic">>,
    <<"sensors", "/", "a", "/", "temperature", "/", "x">> }

\* Records with a numeric value and every shape of the optional fields.
NumericRecords == {
    [value |-> JNum(1)],
    [value |-> JNum(2), unit |-> JStr("C"), timestamp |-> JStr("2024-01-01T00:00:00")],
    [value |-> JNum(1), unit |-> JStr("C")],
    [value |-> JNum(2), timestamp |-> JStr("2024-01-01T00:05:00")],
    [value |-> JNum(1), unit |-> JNull],
    [value |-> JNum(2), timestamp |-> JNull],
    [value |-> JNum(1), unit |-> JNum(2), timestamp |-> JStr("2")] }

\* Records whose value is absent or is not a number.
OtherRecords == {
    [unit |-> JStr("C")],
    [value |-> JNull],
    [value |-> JStr("abc")],
    [value |-> JStr("2")],
    [value |-> JStr("2024-01-01T00:00:00")],
    [value |-> JList],
    [value |-> JObj([a |-> JNum(1)])],
    [value |-> JBool(TRUE)],
    [value |-> JBigInt] }

Payloads ==
    {[k |-> "undecodable"], [k |-> "not_json"]}
    \cup {[k |-> "json", body |-> j] : j \in {JNull, JNum(1), JStr("abc"), JList}}
    \cup {[k |-> "json", body |-> JObj(r)] : r \in NumericRecords \cup OtherRecords}

\* What one INSERT can meet: success, execute() raising OperationalError
\* (SQLITE_BUSY: another connection holds the write lock of the file), or
\* commit() raising OperationalError with the transaction left open
\* (SQLITE_BUSY: another connection holds a read lock on the file).
InsertOutcomes == {"ok", "execute_error", "commit_busy"}

-----------------------------------------------------------------------------
(* str.split('/') : src/subscriber.py line 128 *)

RECURSIVE SplitFrom(_, _)
SplitFrom(pieces, cur) ==
    IF pieces = <<>> THEN <<cur>>
    ELSE IF Head(pieces) = "/" THEN <<cur>> \o SplitFrom(Tail(pieces), "")
    ELSE SplitFrom(Tail(pieces), cur \o Head(pieces))

Split(topic) == SplitFrom(topic, "")

-----------------------------------------------------------------------------
(* The sqlite3 layer under store_reading *)

\* Rows db_connection reads: committed rows and its own uncommitted ones.
Visible == store \o txn

RECURSIVE MaxId(_)
MaxId(rows) ==
    IF rows = <<>> THEN 0
    ELSE LET m == MaxId(Tail(rows)) IN IF Head(rows).id > m THEN Head(rows).id ELSE m

\* C11 mutant: the id of the newest row handed out again when the table is
\* not empty.
NextIdNoIncrement(rows) == IF rows = <<>> THEN 1 ELSE MaxId(rows)

\* id INTEGER PRIMARY KEY AUTOINCREMENT (line 62): one more than the greatest
\* id the table holds; a failed INSERT consumes no id.
NextId(rows) == MaxId(rows) + 1

\* The exception binding one Python value raises, "none" if it binds.
BindError(x) ==
    IF x.t \in {"list", "obj"} THEN "ProgrammingError"
    ELSE IF x.t = "bigint" THEN "OverflowError"
    ELSE "none"

\* Parameters are bound in order: the first that cannot be bound raises.
RECURSIVE FirstBindError(_)
FirstBindError(params) ==
    IF params = <<>> THEN "none"
    ELSE IF BindError(Head(params)) # "none" THEN BindError(Head(params))
    ELSE FirstBindError(Tail(params))

\* Text that SQLite reads as a number, and the number.
NumericText == {"0", "1", "2"}
TextToNum(s) == CASE s = "0" -> 0 [] s = "1" -> 1 [] s = "2" -> 2

\* The text SQLite writes for a whole number.
NumToText(n) == CASE n = 0 -> "0" [] n = 1 -> "1" [] n = 2 -> "2"

\* The integer Python binds for a bool.
BoolToInt(b) == IF b THEN 1 ELSE 0

\* value REAL: numbers are stored as reals, numeric text is converted, other
\* text is stored as text.
RealAffinity(x) ==
    IF x.t = "null" THEN [t |-> "null", v |-> 0]
    ELSE IF x.t = "num" THEN [t |-> "real", v |-> x.v]
    ELSE IF x.t = "bool" THEN [t |-> "real", v |-> BoolToInt(x.v)]
    ELSE IF x.v \in NumericText THEN [t |-> "real", v |-> TextToNum(x.v)]
    ELSE [t |-> "text", v |-> x.v]

\* The NULL of a TEXT column: a marker that is none of the texts of TextOrder.
SqlNull == "<NULL>"

\* unit TEXT (line 66): a number or a bool is stored as its text, text as it
\* is.
TextAffinity(x) ==
    IF x.t = "null" THEN SqlNull
    ELSE IF x.t = "num" THEN NumToText(x.v)
    ELSE IF x.t = "bool" THEN NumToText(BoolToInt(x.v))
    ELSE x.v

\* timestamp DATETIME (line 67), a column of NUMERIC affinity: a number or a
\* bool is stored as an integer, numeric text is converted to the integer,
\* other text is stored as text.
NumericAffinity(x) ==
    IF x.t = "null" THEN [t |-> "null", v |-> 0]
    ELSE IF x.t = "num" THEN [t |-> "integer", v |-> x.v]
    ELSE IF x.t = "bool" THEN [t |-> "integer", v |-> BoolToInt(x.v)]
    ELSE IF x.v \in NumericText THEN [t |-> "integer", v |-> TextToNum(x.v)]
    ELSE [t |-> "text", v |-> x.v]

\* C12 mutant: a schema that declares only value NOT NULL.
NotNullOnValueOnly(value, unit, timestamp) == value.t = "null"

\* value, unit, timestamp ... NOT NULL (lines 65-67): the INSERT is refused
\* when one of them is None. sensor_name and sensor_type are pieces of the
\* topic and are never None.
NotNullViolated(value, unit, timestamp) ==
    value.t = "null" \/ unit.t = "null" \/ timestamp.t = "null"

\* C19 mutant: idx_sensor_name declared UNIQUE, so a second row of a sensor
\* is refused.
UniqueSensorName(rows, sensor_name, timestamp) ==
    \E i \in DOMAIN rows : rows[i].sensor_name = sensor_name

\* idx_timestamp and idx_sensor_name (lines 73-82) are plain indexes, not
\* UNIQUE: no row of the table makes the INSERT of another row fail.
UniqueViolated(rows, sensor_name, timestamp) == FALSE

IsSqliteError(exc) ==
    exc \in {"ProgrammingError", "IntegrityError", "OperationalError"}

NoRow == <<>>

\* cursor.execute(INSERT ...) then db_connection.commit(): lines 165-172.
\* exc is the exception raised ("none"), effect what happened to the row.
\* execute() binds the parameters, then takes the write lock of the file,
\* then checks the constraints of the row.
ExecuteInsert(conn, rows, sensor_name, sensor_type, value, unit, timestamp, io) ==
    LET bind == FirstBindError(<<value, unit, timestamp>>) IN
    IF conn = "closed" THEN [exc |-> "ProgrammingError", effect |-> "none", row |-> NoRow]
    ELSE IF bind # "none" THEN [exc |-> bind, effect |-> "none", row |-> NoRow]
    ELSE IF io = "execute_error"
        THEN [exc |-> "OperationalError", effect |-> "none", row |-> NoRow]
    ELSE IF NotNullViolated(value, unit, timestamp)
        THEN [exc |-> "IntegrityError", effect |-> "none", row |-> NoRow]
    ELSE IF UniqueViolated(rows, sensor_name, timestamp)
        THEN [exc |-> "IntegrityError", effect |-> "none", row |-> NoRow]
    ELSE LET row == <<[id |-> NextId(rows),
                       sensor_name |-> sensor_name,
                       sensor_type |-> sensor_type,
                       value |-> RealAffinity(value),
                       unit |-> TextAffinity(unit),
                       timestamp |-> NumericAffinity(timestamp)]>> IN
         IF io = "commit_busy"
         THEN [exc |-> "OperationalError", effect |-> "pending", row |-> row]
         ELSE [exc |-> "none", effect |-> "committed", row |-> row]

\* store_reading: lines 158-177. ret is the value returned; exc an exception
\* that leaves the function.
store_reading(conn, rows, sensor_name, sensor_type, value, unit, timestamp, io) ==
    IF conn = "None"
    THEN [ret |-> FALSE, exc |-> "none", log |-> "ERROR Database not initialized",
          effect |-> "none", row |-> NoRow]
    ELSE Only({
         IF x.exc = "none"
         THEN [ret |-> TRUE, exc |-> "none", log |-> "none",
               effect |-> x.effect, row |-> x.row]
         ELSE IF IsSqliteError(x.exc)
         THEN [ret |-> FALSE, exc |-> "none", log |-> "ERROR Database error: " \o x.exc,
               effect |-> x.effect, row |-> x.row]
         ELSE [ret |-> FALSE, exc |-> x.exc, log |-> "none",
               effect |-> x.effect, row |-> x.row] :
         x \in {ExecuteInsert(conn, rows, sensor_name, sensor_type,
                              value, unit, timestamp, io)} })

-----------------------------------------------------------------------------
(* on_message: lines 119-154 *)

\* f"{value:6.1f}" formats numbers (and bools); any other value raises ValueError.
FormatsAsFloat(x) == x.t \in {"num", "bool"}

\* The try block, lines 124-149, after the counter is incremented.
OnMessageTry(topic, payload, now, io, conn, rows) ==
    LET topic_parts == Split(topic) IN
    IF Len(topic_parts) # 3
    THEN [exc |-> "none", log |-> "WARNING Unexpected topic format",
          effect |-> "none", row |-> NoRow]
    ELSE IF payload.k = "undecodable"
    THEN [exc |-> "UnicodeDecodeError", log |-> "none", effect |-> "none", row |-> NoRow]
    ELSE IF payload.k = "not_json"
    THEN [exc |-> "JSONDecodeError", log |-> "none", effect |-> "none", row |-> NoRow]
    ELSE IF payload.body.t # "obj"
    THEN [exc |-> "AttributeError", log |-> "none", effect |-> "none", row |-> NoRow]
    ELSE LET sensor_name == topic_parts[2]
             sensor_type == topic_parts[3]
             value == Get(payload.body.v, "value", JNull)
             unit == Get(payload.body.v, "unit", JStr(""))
             timestamp == Get(payload.body.v, "timestamp", JStr(now))
         IN
         IF value.t = "null"
         THEN [exc |-> "none", log |-> "WARNING No value in payload",
               effect |-> "none", row |-> NoRow]
         ELSE Only({
              IF sr.exc # "none"
              THEN [exc |-> sr.exc, log |-> "none", effect |-> sr.effect, row |-> sr.row]
              ELSE IF ~sr.ret
              THEN [exc |-> "none", log |-> sr.log, effect |-> sr.effect, row |-> sr.row]
              ELSE IF FormatsAsFloat(value)
              THEN [exc |-> "none", log |-> "INFO stored",
                    effect |-> sr.effect, row |-> sr.row]
              ELSE [exc |-> "ValueError", log |-> "none",
                    effect |-> sr.effect, row |-> sr.row] :
              sr \in {store_reading(conn, rows, sensor_name, sensor_type,
                                    value, unit, timestamp, io)} })

\* Every exception the try block can raise is a subclass of Exception.
IsException(exc) ==
    exc \in {"UnicodeDecodeError", "JSONDecodeError", "AttributeError", "ValueError",
             "OverflowError", "ProgrammingError", "IntegrityError", "OperationalError"}

\* C6 mutant: the handler without its catch-all clause.
OnMessageExceptJsonOnly(exc) ==
    IF exc = "JSONDecodeError" THEN "WARNING Invalid JSON payload" ELSE "propagates"

\* The except clauses, lines 151-154: the line logged, or "propagates".
OnMessageExcept(exc) ==
    IF exc = "JSONDecodeError" THEN "WARNING Invalid JSON payload"
    ELSE IF IsException(exc) THEN "ERROR Error processing message: " \o exc
    ELSE "propagates"

\* One call: what it logs, whether it returns, what it does to the table.
on_message(topic, payload, now, io, conn, rows) ==
    Only({
    IF r.exc = "none"
    THEN [raised |-> FALSE, log |-> r.log, effect |-> r.effect, row |-> r.row]
    ELSE [raised |-> OnMessageExcept(r.exc) = "propagates",
          log |-> OnMessageExcept(r.exc), effect |-> r.effect, row |-> r.row] :
    r \in {OnMessageTry(topic, payload, now, io, conn, rows)} })

-----------------------------------------------------------------------------
(* The queries *)

Range(seq) == {seq[i] : i \in DOMAIN seq}

\* A stored value of storage class INTEGER or REAL.
IsNumber(x) == x.t \in {"real", "integer"}

\* SQLite's order of stored values: every number sorts before every text.
SqlLess(x, y) ==
    IF IsNumber(x) /\ IsNumber(y) THEN x.v < y.v
    ELSE IF IsNumber(x) THEN TRUE
    ELSE IF IsNumber(y) THEN FALSE
    ELSE TextLess(x.v, y.v)

\* The number SQLite reads in a text: the longest prefix that is a number, 0
\* when the text starts with none.
NumericPrefix(s) ==
    IF s \in NumericText THEN TextToNum(s)
    ELSE IF s \in {"2024-01-01T00:00:00", "2024-01-01T00:05:00"} THEN 2024
    ELSE 0

\* The number SUM and AVG read in a stored value: a number is itself, a text
\* is its numeric prefix.
SqlNum(x) == IF x.t = "real" THEN x.v ELSE NumericPrefix(x.v)

\* ORDER BY sensor_name, sensor_type on <<sensor_name, sensor_type>> keys.
KeyLess(g, h) == TextLess(g[1], h[1]) \/ (g[1] = h[1] /\ TextLess(g[2], h[2]))

RECURSIVE SortKeys(_)
SortKeys(keys) ==
    IF keys = {} THEN <<>>
    ELSE LET first == CHOOSE g \in keys : \A h \in keys \ {g} : KeyLess(g, h)
         IN <<first>> \o SortKeys(keys \ {first})

GroupKeys(rows) == {<<r.sensor_name, r.sensor_type>> : r \in Range(rows)}

\* The values of the rows of one group, in table order.
GroupValues(rows, g) ==
    LET idx == SelectSeq([i \in DOMAIN rows |-> i],
                         LAMBDA i : <<rows[i].sensor_name, rows[i].sensor_type>> = g)
    IN [k \in DOMAIN idx |-> rows[idx[k]].value]

RECURSIVE SqlMin(_)
SqlMin(vals) ==
    IF Len(vals) = 1 THEN vals[1]
    ELSE LET m == SqlMin(Tail(vals)) IN IF SqlLess(Head(vals), m) THEN Head(vals) ELSE m

RECURSIVE SqlMax(_)
SqlMax(vals) ==
    IF Len(vals) = 1 THEN vals[1]
    ELSE LET m == SqlMax(Tail(vals)) IN IF SqlLess(m, Head(vals)) THEN Head(vals) ELSE m

RECURSIVE SqlSum(_)
SqlSum(vals) == IF vals = <<>> THEN 0 ELSE SqlNum(Head(vals)) + SqlSum(Tail(vals))

\* SELECT ... COUNT(*), MIN(value), MAX(value), AVG(value) ... GROUP BY ... ORDER BY
SummaryRows(rows) ==
    LET keys == SortKeys(GroupKeys(rows)) IN
    [k \in DOMAIN keys |->
        LET vals == GroupValues(rows, keys[k]) IN
        [sensor_name |-> keys[k][1],
         sensor_type |-> keys[k][2],
         count |-> Len(vals),
         min_val |-> SqlMin(vals),
         max_val |-> SqlMax(vals),
         avg_val |-> [num |-> SqlSum(vals), den |-> Len(vals)]]]

\* get_readings_summary: lines 205-225. none stands for the None returned.
get_readings_summary(conn, rows, query) ==
    IF conn = "None" THEN [none |-> TRUE, rows |-> <<>>]
    ELSE IF conn = "closed" \/ query = "error" THEN [none |-> TRUE, rows |-> <<>>]
    ELSE [none |-> FALSE, rows |-> SummaryRows(rows)]

\* SELECT sensor_name, MAX(timestamp) ... GROUP BY sensor_name
MaxTimestamp(rows, name) ==
    LET ts == {r.timestamp : r \in {q \in Range(rows) : q.sensor_name = name}}
    IN CHOOSE m \in ts : \A u \in ts \ {m} : SqlLess(u, m)

\* SELECT DISTINCT sensor_name, sensor_type, value, unit, timestamp ... WHERE
\* (sensor_name, timestamp) IN (...): the set of result rows.
LatestRows(rows) ==
    {[sensor_name |-> r.sensor_name, sensor_type |-> r.sensor_type,
      value |-> r.value, unit |-> r.unit, timestamp |-> r.timestamp] :
        r \in {q \in Range(rows) : q.timestamp = MaxTimestamp(rows, q.sensor_name)}}

\* get_latest_readings: lines 180-202.
get_latest_readings(conn, rows, query) ==
    IF conn = "None" THEN [none |-> TRUE, rows |-> {}]
    ELSE IF conn = "closed" \/ query = "error" THEN [none |-> TRUE, rows |-> {}]
    ELSE [none |-> FALSE, rows |-> LatestRows(rows)]

QueryOutcomes == {"ok", "error"}

-----------------------------------------------------------------------------
(* The program *)

\* DB_FILE outlives the process: the table is empty on a first run and holds
\* the rows of earlier runs afterwards.
InitialStores == {
    <<>>,
    <<[id |-> 1, sensor_name |-> "a", sensor_type |-> "temperature",
       value |-> [t |-> "real", v |-> 1], unit |-> "C",
       timestamp |-> [t |-> "text", v |-> "2024-01-01T00:00:00"]]>> }

\* The objects init_database creates, in the order of its statements.
SchemaObjects == <<"sensor_readings", "idx_timestamp", "idx_sensor_name">>

FullSchema == Range(SchemaObjects)

\* DB_FILE when main starts: no file yet, or the file of earlier runs (with
\* its rows), or a file whose table was created but whose indexes were not.
InitialFiles ==
    {[schema |-> {}, rows |-> <<>>]}
    \cup {[schema |-> FullSchema, rows |-> rows] : rows \in InitialStores}
    \cup {[schema |-> {"sensor_readings"}, rows |-> rows] : rows \in InitialStores}

\* The arguments of a call, when the transport thread is in none.
NoArgs == [topic |-> <<>>, payload |-> [k |-> "none"], now |-> "", io |-> "none"]

\* inflight while the transport thread is in no call of on_message.
NoCall == [commit |-> "none", raised |-> FALSE, log |-> "none", args |-> NoArgs]

Init ==
    /\ \E file \in InitialFiles : schema = file.schema /\ store = file.rows
    /\ txn = <<>>
    /\ messages_received = 0
    /\ db_connection = "None"
    /\ mqtt_client = "None"
    /\ main_pc = "init_database"
    /\ exit_log = "none"
    /\ handler_result = "idle"
    /\ handler_log = "none"
    /\ summary_emitted = 0
    /\ logged_total = <<>>
    /\ inflight = NoCall
    /\ cleanup_pc = 0
    /\ summarized = {}

\* C16 mutant: the table dropped and created anew (its rows and indexes go
\* with it).
CreateTableAfterDrop(objects, rows) ==
    [schema |-> {"sensor_readings"}, rows |-> <<>>, exc |-> "none"]

\* CREATE TABLE IF NOT EXISTS sensor_readings, lines 60-70: an existing table
\* and its rows are left alone.
CreateTableIfNotExists(objects, rows) ==
    [schema |-> objects \cup {"sensor_readings"}, rows |-> rows, exc |-> "none"]

\* CREATE INDEX IF NOT EXISTS, lines 73-82.
CreateIndexIfNotExists(objects, index) == objects \cup {index}

\* How a call of init_database can go: connect() raises, one of the three
\* CREATE statements raises, commit() raises, or nothing does.
InitOutcomes ==
    {"ok", "connect_error", "create_table_error", "create_idx_timestamp_error",
     "create_idx_sensor_name_error", "commit_error"}

\* The number of CREATE statements that ran before the call ended. A CREATE
\* statement takes effect at once: sqlite3 opens no transaction for it.
StatementsRun(outcome) ==
    CASE outcome \in {"connect_error", "create_table_error"} -> 0
      [] outcome = "create_idx_timestamp_error" -> 1
      [] outcome = "create_idx_sensor_name_error" -> 2
      [] outcome \in {"commit_error", "ok"} -> 3

\* init_database, lines 51-93, on the file [schema, rows]: the file it
\* leaves and the value it returns (ret).
InitSchema(objects, rows, outcome) ==
    LET n == StatementsRun(outcome)
        t == IF n >= 1 THEN CreateTableIfNotExists(objects, rows)
             ELSE [schema |-> objects, rows |-> rows, exc |-> "none"]
        i1 == IF n >= 2 /\ t.exc = "none"
              THEN CreateIndexIfNotExists(t.schema, SchemaObjects[2])
              ELSE t.schema
        i2 == IF n >= 3 /\ t.exc = "none"
              THEN CreateIndexIfNotExists(i1, SchemaObjects[3])
              ELSE i1
    IN [schema |-> i2, rows |-> t.rows, ret |-> (outcome = "ok" /\ t.exc = "none")]

\* main, lines 264-266, with its call of init_database.
init_database ==
    /\ main_pc = "init_database"
    /\ \E outcome \in InitOutcomes :
        \E file \in {InitSchema(schema, store, outcome)} :
            /\ db_connection' = IF outcome = "connect_error" THEN "None" ELSE "open"
            /\ main_pc' = IF file.ret THEN "init_mqtt" ELSE "returned"
            /\ exit_log' = IF file.ret THEN exit_log
                           ELSE "ERROR Cannot continue without database. Exiting."
            /\ schema' = file.schema
            /\ store' = file.rows
    /\ UNCHANGED <<txn, messages_received, mqtt_client, handler_result,
                   handler_log, summary_emitted, logged_total, inflight,
                   cleanup_pc, summarized>>

\* init_mqtt up to loop_start(), lines 234-240, and the return of main when it
\* fails (lines 244-247 and 269-271). Once loop_start() has returned the
\* transport thread runs and main is in time.sleep(1).
init_mqtt ==
    /\ main_pc = "init_mqtt"
    /\ \E outcome \in {"ok", "client_error", "connect_error"} :
        /\ mqtt_client' = CASE outcome = "ok" -> "running"
                            [] outcome = "client_error" -> "None"
                            [] outcome = "connect_error" -> "created"
        /\ main_pc' = IF outcome = "ok" THEN "init_mqtt_sleep" ELSE "returned"
        /\ exit_log' = IF outcome = "ok" THEN exit_log
                       ELSE "ERROR Cannot continue without MQTT. Exiting."
    /\ UNCHANGED <<schema, store, txn, messages_received, db_connection,
                   handler_result, handler_log, summary_emitted, logged_total,
                   inflight, cleanup_pc, summarized>>

\* time.sleep(1) ends, init_mqtt returns True (lines 242-243) and main enters
\* its loop (lines 273-277).
InitMqttReturns ==
    /\ main_pc = "init_mqtt_sleep"
    /\ main_pc' = "loop"
    /\ UNCHANGED <<schema, store, txn, messages_received, db_connection, mqtt_client,
                   exit_log, handler_result, handler_log, summary_emitted,
                   logged_total, inflight, cleanup_pc, summarized>>

\* Ctrl+C while main is in time.sleep(1) of init_mqtt (line 242):
\* KeyboardInterrupt is no Exception, so line 244 does not catch it, and the
\* call of line 269 is outside the try of main: the exception leaves main,
\* nothing is logged and cleanup does not run. The process ends with it (the
\* transport thread is a daemon thread).
KeyboardInterruptInSleep ==
    /\ main_pc = "init_mqtt_sleep"
    /\ main_pc' = "raised"
    /\ UNCHANGED <<schema, store, txn, messages_received, db_connection, mqtt_client,
                   exit_log, handler_result, handler_log, summary_emitted,
                   logged_total, inflight, cleanup_pc, summarized>>

\* The transport thread takes steps: loop_start() started it, loop_stop() has
\* not stopped it, no exception ended it and the process has not ended.
TransportRuns == mqtt_client = "running" /\ main_pc # "raised"

\* The transport thread calls on_message for one delivered message. The step
\* is on_message from its first statement to the return of cursor.execute: a
\* call that inserted no row ends here, a call that inserted one stops before
\* db_connection.commit(). An exception that leaves the callback ends the
\* transport's loop thread.
BeginMessage(topic, payload, now, io) ==
    /\ TransportRuns
    /\ inflight = NoCall
    /\ messages_received < MaxMessages
    /\ \E r \in {on_message(topic, payload, now, io, db_connection, Visible)} :
        /\ messages_received' = messages_received + 1
        /\ IF r.effect = "none"
           THEN /\ handler_result' = IF r.raised THEN "raised" ELSE "returned"
                /\ handler_log' = r.log
                /\ mqtt_client' = IF r.raised THEN "crashed" ELSE mqtt_client
                /\ UNCHANGED <<txn, inflight>>
           ELSE /\ txn' = txn \o r.row
                /\ inflight' = [commit |-> r.effect, raised |-> r.raised, log |-> r.log,
                                args |-> [topic |-> topic, payload |-> payload,
                                          now |-> now, io |-> io]]
                /\ UNCHANGED <<handler_result, handler_log, mqtt_client>>
    /\ UNCHANGED <<schema, store, db_connection, main_pc, exit_log, summary_emitted,
                   logged_total, cleanup_pc, summarized>>

Deliver ==
    \E topic \in Topics, payload \in Payloads, now \in Clock, io \in InsertOutcomes :
        BeginMessage(topic, payload, now, io)

\* The rest of the call: db_connection.commit() (line 172) and the lines
\* after it. commit() persists every uncommitted row of the handle; when it
\* raises they stay uncommitted; on a closed handle it raises
\* ProgrammingError.
CommitMessage ==
    /\ TransportRuns
    /\ inflight # NoCall
    /\ IF db_connection = "closed"
       THEN /\ handler_log' = "ERROR Database error: ProgrammingError"
            /\ handler_result' = "returned"
            /\ UNCHANGED <<store, txn, mqtt_client>>
       ELSE /\ store' = IF inflight.commit = "committed" THEN store \o txn ELSE store
            /\ txn' = IF inflight.commit = "committed" THEN <<>> ELSE txn
            /\ handler_log' = inflight.log
            /\ handler_result' = IF inflight.raised THEN "raised" ELSE "returned"
            /\ mqtt_client' = IF inflight.raised THEN "crashed" ELSE mqtt_client
    /\ inflight' = NoCall
    /\ UNCHANGED <<schema, messages_received, db_connection, main_pc, exit_log,
                   summary_emitted, logged_total, cleanup_pc, summarized>>

\* f"{min_val:6.1f} ... {max_val:6.1f} ... {avg_val:6.1f}" of one summary row.
RowFormats(row) == row.min_val.t = "real" /\ row.max_val.t = "real"

\* Index of the first summary row whose formatting raises, 0 if none does.
FirstBadRow(rows) ==
    IF \A i \in DOMAIN rows : RowFormats(rows[i]) THEN 0
    ELSE CHOOSE i \in DOMAIN rows :
            /\ ~RowFormats(rows[i])
            /\ \A j \in 1..(i - 1) : RowFormats(rows[j])

\* One turn of the loop of main, lines 277-288: the summary query reads the
\* rows db_connection sees at that moment; an exception in the body is logged
\* (lines 292-293) and takes main to cleanup (lines 294-295). traced says
\* whether the rows the query read are recorded in summarized.
TickOn(query, traced) ==
    /\ main_pc = "loop"
    /\ \E summary \in {get_readings_summary(db_connection, Visible, query)} :
        \E bad \in {FirstBadRow(summary.rows)} :
           /\ summarized' = IF summary.none \/ ~traced THEN summarized
                            ELSE summarized \cup {r.id : r \in Range(Visible)}
           /\ IF bad = 0
              THEN /\ summary_emitted' = Len(summary.rows)
                   /\ UNCHANGED <<main_pc, exit_log, cleanup_pc>>
              ELSE /\ summary_emitted' = bad - 1
                   /\ exit_log' = "ERROR Unexpected error in main loop"
                   /\ main_pc' = "cleanup"
                   /\ cleanup_pc' = 1
    /\ UNCHANGED <<schema, store, txn, messages_received, db_connection, mqtt_client,
                   handler_result, handler_log, logged_total, inflight>>

\* The summary query of a tick succeeds, or raises sqlite3.Error.
Tick == \E query \in QueryOutcomes : TickOn(query, FALSE)

\* The same turn, with the rows the summary read recorded in summarized.
TickTraced == \E query \in QueryOutcomes : TickOn(query, TRUE)

\* Ctrl+C in the loop of main: the line of lines 290-291 is logged, then
\* finally calls cleanup (lines 294-295). The transport thread runs until
\* cleanup stops it.
KeyboardInterrupt ==
    /\ main_pc = "loop"
    /\ exit_log' = "Shutdown requested..."
    /\ main_pc' = "cleanup"
    /\ cleanup_pc' = 1
    /\ UNCHANGED <<schema, store, txn, messages_received, db_connection, mqtt_client,
                   handler_result, handler_log, summary_emitted, logged_total,
                   inflight, summarized>>

\* C17 mutant: the database closed before the transport is stopped.
CleanupCloseFirst == <<"close_db", "log_total", "stop_mqtt">>

\* The steps of cleanup in the order of its statements: lines 304-307
\* (loop_stop, disconnect), line 311 (close), line 312 (the counter logged).
CleanupOrder == <<"stop_mqtt", "close_db", "log_total">>

\* One step of cleanup, lines 299-314. loop_stop() joins the transport
\* thread: it returns once the thread is in no callback. close() discards
\* the uncommitted rows of the handle.
cleanup ==
    /\ main_pc = "cleanup"
    /\ \E op \in {CleanupOrder[cleanup_pc]} :
        /\ (op = "stop_mqtt" /\ mqtt_client = "running") => inflight = NoCall
        /\ mqtt_client' = IF op = "stop_mqtt" /\ mqtt_client # "None"
                          THEN "stopped" ELSE mqtt_client
        /\ db_connection' = IF op = "close_db" /\ db_connection # "None"
                            THEN "closed" ELSE db_connection
        /\ txn' = IF op = "close_db" /\ db_connection # "None" THEN <<>> ELSE txn
        /\ logged_total' = IF op = "log_total" /\ db_connection # "None"
                           THEN <<messages_received>> ELSE logged_total
    /\ IF cleanup_pc = Len(CleanupOrder)
       THEN main_pc' = "returned" /\ cleanup_pc' = 0
       ELSE cleanup_pc' = cleanup_pc + 1 /\ UNCHANGED main_pc
    /\ UNCHANGED <<schema, store, messages_received, exit_log, handler_result,
                   handler_log, summary_emitted, inflight, summarized>>

Next ==
    \/ init_database
    \/ init_mqtt
    \/ InitMqttReturns
    \/ KeyboardInterruptInSleep
    \/ Deliver
    \/ CommitMessage
    \/ Tick
    \/ KeyboardInterrupt
    \/ cleanup

Spec == Init /\ [][Next]_vars

\* The program with the rows every summary read recorded in summarized.
NextTraced ==
    \/ init_database
    \/ init_mqtt
    \/ InitMqttReturns
    \/ KeyboardInterruptInSleep
    \/ Deliver
    \/ CommitMessage
    \/ TickTraced
    \/ KeyboardInterrupt
    \/ cleanup

SpecTraced == Init /\ [][NextTraced]_vars

-----------------------------------------------------------------------------
(* Vocabulary of the claims *)

\* The topic is sensors/S/K with S and K non-empty.
IsSensorTopic(topic) ==
    /\ Len(Split(topic)) = 3
    /\ Split(topic)[1] = "sensors"
    /\ Split(topic)[2] # ""
    /\ Split(topic)[3] # ""

IsRecord(payload) == payload.k = "json" /\ payload.body.t = "obj"

\* The payload is a JSON record whose value field is a number (one a REAL
\* column can hold).
HasNumericValue(payload) ==
    /\ IsRecord(payload)
    /\ "value" \in DOMAIN payload.body.v
    /\ payload.body.v.value.t = "num"

\* The unit the payload gives (a number as its text), the empty string when
\* it gives none.
PayloadUnit(payload) ==
    IF "unit" \notin DOMAIN payload.body.v THEN ""
    ELSE IF payload.body.v.unit.t = "str" THEN payload.body.v.unit.v
    ELSE IF payload.body.v.unit.t = "num" THEN NumToText(payload.body.v.unit.v)
    ELSE ""

PairOf(r) == <<r.sensor_name, r.sensor_type>>

RowsOfPair(rows, g) == {r \in Range(rows) : PairOf(r) = g}

\* The Reading of a pair with the greatest timestamp, the highest id among
\* equal timestamps.
LatestOfPair(rows, g) ==
    CHOOSE r \in RowsOfPair(rows, g) :
        \A q \in RowsOfPair(rows, g) \ {r} :
            \/ SqlLess(q.timestamp, r.timestamp)
            \/ (q.timestamp = r.timestamp /\ q.id < r.id)

WithoutId(r) ==
    [sensor_name |-> r.sensor_name, sensor_type |-> r.sensor_type,
     value |-> r.value, unit |-> r.unit, timestamp |-> r.timestamp]

RECURSIVE SumOf(_)
SumOf(nums) == IF nums = <<>> THEN 0 ELSE Head(nums) + SumOf(Tail(nums))

\* main is past its initialisation and nothing asked it to stop.
Started == main_pc \notin {"init_database", "init_mqtt", "init_mqtt_sleep"}
StopRequested ==
    \/ exit_log \in {"Shutdown requested...",
                     "ERROR Cannot continue without database. Exiting.",
                     "ERROR Cannot continue without MQTT. Exiting."}
    \/ main_pc = "raised"
Running == main_pc = "loop" /\ mqtt_client = "running" /\ db_connection = "open"

\* The arguments of the call of on_message that is at its commit.
Called == inflight.args

\* The step in which a call of on_message ends: the call began and ended
\* before the INSERT, or it is the step of its commit.
CallEnds ==
    /\ inflight' = NoCall
    /\ (inflight # NoCall \/ messages_received' = messages_received + 1)


-----------------------------------------------------------------------------
(* Claims *)

\* C1: for a topic sensors/S/K and a record payload with a numeric value,
\* one call of on_message with storage available adds exactly one Reading,
\* with sensor_name S, measurement_kind K, the payload's value and unit,
\* whatever the optional fields are: the call inserts a row, and its commit
\* adds that row to the store.
C1_OneReadingPerValidMessage ==
    [][/\ \A topic \in Topics, payload \in Payloads, now \in Clock :
            (/\ IsSensorTopic(topic)
             /\ HasNumericValue(payload)
             /\ db_connection = "open"
             /\ BeginMessage(topic, payload, now, "ok"))
            => inflight' # NoCall
       /\ (/\ CommitMessage
           /\ Called.io = "ok"
           /\ IsSensorTopic(Called.topic)
           /\ HasNumericValue(Called.payload)
           /\ db_connection = "open"
           /\ Len(txn) = 1)
          => /\ Len(store') = Len(store) + 1
             /\ SubSeq(store', 1, Len(store)) = store
             /\ store'[Len(store')].sensor_name = Split(Called.topic)[2]
             /\ store'[Len(store')].sensor_type = Split(Called.topic)[3]
             /\ store'[Len(store')].value
                    = [t |-> "real", v |-> Called.payload.body.v.value.v]
             /\ store'[Len(store')].unit = PayloadUnit(Called.payload)]_vars

\* C2: a payload that is no record, or whose value is absent or not a
\* number, persists no Reading: the store is the same after the call.
C2_NoReadingWithoutNumericValue ==
    [][(CallEnds /\ inflight # NoCall /\ ~HasNumericValue(Called.payload))
        => store' = store]_vars

\* C3: a topic that does not split into exactly three segments persists no
\* Reading and leaves messages_received unchanged.
C3_BadTopicLeavesCounter ==
    [][\A topic \in Topics, payload \in Payloads, now \in Clock, io \in InsertOutcomes :
        (Len(Split(topic)) # 3 /\ BeginMessage(topic, payload, now, io))
        => (store' = store /\ messages_received' = messages_received)]_vars

\* C4: a three-segment topic is accepted only if its segments are non-empty
\* and the first is "sensors"; any other three-segment topic persists no
\* Reading.
C4_OnlySensorTopicsAccepted ==
    [][(/\ CallEnds
        /\ inflight # NoCall
        /\ Len(Split(Called.topic)) = 3
        /\ ~IsSensorTopic(Called.topic))
        => store' = store]_vars

\* C5: without a shutdown signal the process keeps running after any
\* sequence of messages and ticks: the loop of main has not ended, the
\* transport loop runs and the storage handle is open.
C5_NoMessageStopsPipeline == (Started /\ ~StopRequested) => Running

\* Calls of on_message on a handle that is None or closed (the table is not
\* read on these paths).
CallsWithoutHandle ==
    {on_message(topic, payload, now, io, conn, <<>>) :
        topic \in Topics, payload \in Payloads, now \in Clock,
        io \in InsertOutcomes, conn \in {"None", "closed"}}

\* C6: on_message returns normally for every topic, every payload and every
\* storage outcome: no exception reaches the transport.
C6_HandlerNeverRaises ==
    /\ handler_result # "raised"
    /\ mqtt_client # "crashed"
    /\ ~inflight.raised
    /\ \A r \in CallsWithoutHandle : ~r.raised

\* C6 witness: a payload that is valid JSON but no record made .get raise
\* inside the handler, and the handler returned.
C6_Witness ==
    /\ handler_result = "returned"
    /\ handler_log = "ERROR Error processing message: AttributeError"

\* C7: get_latest_readings returns at most one row per (sensor_name,
\* measurement_kind), and it is the pair's Reading with the maximum
\* timestamp, the highest id among equal timestamps.
C7_LatestOneRowPerPair ==
    db_connection = "open" =>
        LET res == get_latest_readings(db_connection, Visible, "ok").rows IN
        /\ \A x, y \in res : PairOf(x) = PairOf(y) => x = y
        /\ \A x \in res : x = WithoutId(LatestOfPair(Visible, PairOf(x)))

\* C8: get_latest_readings returns the latest row of every pair that has a
\* stored Reading, also of the kinds that are not the sensor's newest.
C8_LatestCoversEveryPair ==
    db_connection = "open" =>
        LET res == get_latest_readings(db_connection, Visible, "ok").rows IN
        \A g \in GroupKeys(Visible) : WithoutId(LatestOfPair(Visible, g)) \in res

\* C9: get_readings_summary returns one row per pair of the store, ordered
\* by sensor_name then measurement_kind, with the number of Readings of the
\* pair and the minimum, maximum and arithmetic mean of their values (the
\* value of a Reading is a number, and so are its minimum, maximum and mean).
C9_SummaryIsAggregate ==
    db_connection = "open" =>
        LET res == get_readings_summary(db_connection, Visible, "ok").rows IN
        /\ {PairOf(res[i]) : i \in DOMAIN res} = GroupKeys(Visible)
        /\ \A i, j \in DOMAIN res : i < j => KeyLess(PairOf(res[i]), PairOf(res[j]))
        /\ \A i \in DOMAIN res :
            LET vals == GroupValues(Visible, PairOf(res[i])) IN
            /\ res[i].count = Cardinality(RowsOfPair(Visible, PairOf(res[i])))
            /\ \A k \in DOMAIN vals : vals[k].t = "real"
            /\ res[i].min_val \in Range(vals)
            /\ \A k \in DOMAIN vals : res[i].min_val.v <= vals[k].v
            /\ res[i].max_val \in Range(vals)
            /\ \A k \in DOMAIN vals : res[i].max_val.v >= vals[k].v
            /\ res[i].avg_val.num * Len(vals)
                 = res[i].avg_val.den * SumOf([k \in DOMAIN vals |-> vals[k].v])

\* C10: messages_received grows by one exactly when a Reading is persisted,
\* so it counts the Readings this process stored (the total cleanup logs):
\* every call of on_message, which adds one to the counter, has added one
\* Reading to the store when it ends, and the store grows in no other step.
C10_CounterCountsStoredReadings ==
    [][/\ CallEnds => Len(store') = Len(store) + 1
       /\ store' # store => CallEnds]_vars

\* C11: the ids of the Readings of the table are pairwise distinct and grow
\* in insertion order (the table lists its rows in insertion order), also
\* past the rows a pre-populated store held and past failed inserts.
C11_IdsUniqueAndIncreasing ==
    /\ \A i, j \in DOMAIN Visible : i < j => Visible[i].id < Visible[j].id
    /\ \A i, j \in DOMAIN store : i # j => store[i].id # store[j].id

\* C11 witness: over a pre-populated store, an insert whose commit failed was
\* followed by a successful one: three persisted rows after two messages.
C11_Witness ==
    /\ Len(store) = 3
    /\ messages_received = 2
    /\ store[1].id = 1

\* A column of a Reading holds NULL.
HasNullField(r) ==
    \/ r.sensor_name = SqlNull
    \/ r.sensor_type = SqlNull
    \/ r.value.t = "null"
    \/ r.timestamp.t = "null"

\* C12: no Reading of the table has a null sensor_name, measurement_kind,
\* value or timestamp; a payload with a numeric value and an explicit null
\* unit or timestamp leaves no row with a null field.
C12_NoNullField == \A r \in Range(Visible) : ~HasNullField(r)

\* C12 witness: a payload with a numeric value and a null unit or timestamp
\* was handled (the INSERT was refused by NOT NULL) while the table holds a
\* Reading.
C12_Witness ==
    /\ handler_result = "returned"
    /\ handler_log = "ERROR Database error: IntegrityError"
    /\ store # <<>>

\* C13: the store is append-only. Every step leaves the persisted Readings
\* in place and unchanged; the store changes only in the step that ends a
\* call of on_message whose insert succeeded, and then by exactly one added
\* row.
C13_AppendOnly ==
    [][/\ Len(store') >= Len(store)
       /\ SubSeq(store', 1, Len(store)) = store
       /\ store' # store =>
            /\ CallEnds
            /\ handler_result' = "returned"
            /\ Len(store') = Len(store) + 1]_vars

\* The lines on_message / store_reading log when the INSERT of a decoded
\* Reading failed.
InsertFailureLogs ==
    {"ERROR Database error: IntegrityError",
     "ERROR Database error: OperationalError",
     "ERROR Database error: ProgrammingError",
     "ERROR Error processing message: OverflowError"}

\* A record with a numeric value whose optional fields, when present, are
\* text.
IsWellFormed(payload) ==
    /\ HasNumericValue(payload)
    /\ \A k \in DOMAIN payload.body.v \ {"value"} : payload.body.v[k].t = "str"

\* C14: a failed insert leaves the store unchanged and the handler returns;
\* the Reading is not inserted later either: the next well-formed message,
\* with storage available, adds its own Reading to the store and nothing
\* else.
C14_FailedInsertDropsReading ==
    [][/\ (CallEnds /\ handler_log' \in InsertFailureLogs)
            => (store' = store /\ handler_result' = "returned")
       /\ (/\ CommitMessage
           /\ IsSensorTopic(Called.topic)
           /\ IsWellFormed(Called.payload)
           /\ db_connection = "open"
           /\ Called.io = "ok")
          => /\ store' = Append(store, store'[Len(store')])
             /\ store'[Len(store')].sensor_name = Split(Called.topic)[2]
             /\ store'[Len(store')].sensor_type = Split(Called.topic)[3]
             /\ store'[Len(store')].value
                    = [t |-> "real", v |-> Called.payload.body.v.value.v]]_vars

\* C15: a summarizer tick on an empty store (no insert being in flight), or
\* whose summary query fails, emits no summary record and raises nothing:
\* the loop of main goes on, and the store and the counter are unchanged.
C15_QuietTickOnEmptyOrFailedQuery ==
    [][\A query \in QueryOutcomes :
        (/\ TickOn(query, FALSE)
         /\ inflight = NoCall
         /\ (store = <<>> \/ query = "error"))
        => /\ summary_emitted' = 0
           /\ main_pc' = "loop"
           /\ exit_log' = exit_log
           /\ store' = store
           /\ messages_received' = messages_received]_vars

\* C16: init_database is idempotent. A successful call leaves every row the
\* store held in place with its id and fields, and leaves the table and the
\* two indexes; a second call on the file it left succeeds and leaves the
\* same schema and the same rows.
C16_InitializeIdempotent ==
    [][(main_pc = "init_database" /\ main_pc' = "init_mqtt")
       => /\ store' = store
          /\ schema' = FullSchema
          /\ InitSchema(schema', store', "ok")
                = [schema |-> schema', rows |-> store', ret |-> TRUE]]_vars

\* C16 witness: init_database succeeded on a pre-populated file that already
\* had the table and the indexes, the file an earlier call left.
C16_Witness ==
    /\ main_pc = "init_mqtt"
    /\ db_connection = "open"
    /\ schema = FullSchema
    /\ store \in InitialStores \ {<<>>}

\* on_message reaches the INSERT of store_reading for this message.
ReachesInsert(topic, payload) ==
    /\ Len(Split(topic)) = 3
    /\ IsRecord(payload)
    /\ Get(payload.body.v, "value", JNull).t # "null"

\* C17: after a shutdown signal, cleanup goes in this order: the transport
\* stops delivering, with no insert left in flight; then the storage handle
\* is closed; then the final counter is logged. So once the handle is closed
\* no call of on_message is in flight and none attempts an insert.
C17_ShutdownOrder ==
    [][exit_log' = "Shutdown requested..." =>
        /\ mqtt_client' = "stopped" => inflight' = NoCall
        /\ mqtt_client = "stopped" =>
                (messages_received' = messages_received /\ inflight' = NoCall)
        /\ db_connection' = "closed" => mqtt_client' = "stopped"
        /\ logged_total' # <<>> =>
                (db_connection' = "closed" /\ logged_total' = <<messages_received'>>)
        /\ db_connection = "closed" =>
                /\ inflight = NoCall
                /\ ~\E topic \in Topics, payload \in Payloads, now \in Clock,
                      io \in InsertOutcomes :
                        ReachesInsert(topic, payload)
                        /\ BeginMessage(topic, payload, now, io)]_vars

\* C17 witness: the shutdown signal came while an insert was between its
\* execute and its commit; cleanup has started and waits for it.
C17_Witness ==
    /\ exit_log = "Shutdown requested..."
    /\ main_pc = "cleanup"
    /\ inflight # NoCall
    /\ mqtt_client = "running"

Ids(rows) == {r.id : r \in Range(rows)}

\* C18: with on_message and the summarizer tick interleaved at the insert's
\* execute and commit, a Summary is the aggregate of Readings whose inserts
\* end up committed: each count lies between the Readings of the pair
\* already persisted and the inserts of the pair started, and every row a
\* Summary has read is in the store when main has returned after a shutdown
\* signal.
C18_SummaryReadsCommittedRows ==
    [][/\ \A query \in QueryOutcomes :
            (query = "ok" /\ db_connection = "open" /\ TickOn(query, TRUE)) =>
                \A row \in Range(get_readings_summary(db_connection, Visible, query).rows) :
                    /\ row.count >= Cardinality(RowsOfPair(store, PairOf(row)))
                    /\ row.count <= Cardinality(RowsOfPair(Visible, PairOf(row)))
       /\ (main_pc' = "returned" /\ exit_log' = "Shutdown requested...")
            => summarized' \subseteq Ids(store')]_vars

\* What a call did with its message: dropped, or persisted with these fields.
Dropped ==
    [persisted |-> FALSE, sensor_name |-> "", sensor_type |-> "",
     value |-> [t |-> "none", v |-> 0], unit |-> ""]

PersistedAs(r) ==
    [persisted |-> TRUE, sensor_name |-> r.sensor_name, sensor_type |-> r.sensor_type,
     value |-> r.value, unit |-> r.unit]

\* The outcome of a call whose commit succeeds.
OutcomeOf(r) == IF r.effect = "committed" THEN PersistedAs(r.row[1]) ELSE Dropped

\* The outcome of every message when it is the first one delivered to a new,
\* empty store.
OutcomeAlone ==
    [topic \in Topics, payload \in Payloads, now \in Clock |->
        OutcomeOf(on_message(topic, payload, now, "ok", "open", <<>>))]

\* C19: with storage available, the outcome of a message (dropped, or
\* persisted with its sensor_name, measurement_kind, value and unit) is the
\* same after every history of earlier messages, accepted, rejected or
\* failed: it is the outcome the message has when delivered alone. In every
\* state the program reaches with the transport thread in no call, a call of
\* on_message drops the message or inserts the row it drops or inserts
\* alone, and the commit of an inserted row persists that row.
C19_OutcomeIndependentOfHistory ==
    /\ []((db_connection = "open" /\ inflight = NoCall) =>
            \A topic \in Topics, payload \in Payloads, now \in Clock :
                OutcomeOf(on_message(topic, payload, now, "ok", db_connection, Visible))
                    = OutcomeAlone[topic, payload, now])
    /\ [][(CommitMessage /\ Called.io = "ok" /\ db_connection = "open")
            => /\ store' # store
               /\ PersistedAs(store'[Len(store')])
                    = OutcomeAlone[Called.topic, Called.payload, Called.now]]_vars

\* C19 witness: a second message was persisted after a first one that was
\* rejected or failed to insert, the store being empty before both.
C19_Witness ==
    /\ messages_received = 2
    /\ inflight = NoCall
    /\ handler_log = "INFO stored"
    /\ Len(store) = 1
    /\ store[1].id = 1

\* C20: when main has returned after init_database succeeded (the transport
\* could not be initialised, a shutdown signal came, or the summarizer loop
\* ended on an unexpected error), cleanup has run and the storage handle
\* is closed.
C20_HandleClosedOnReturn ==
    (/\ main_pc = "returned"
     /\ exit_log # "ERROR Cannot continue without database. Exiting.")
    => (db_connection = "closed" /\ logged_total # <<>>)

=============================================================================
